---------------------------- MODULE Spec2Model ----------------------------
(***************************************************************************)
(* A model of PYTHON/utils.py: the pathology transform, the design         *)
(* generator generate_simulated_design, the response simulator             *)
(* compute_beta_response and the orchestrator generate_simulated_data.     *)
(*                                                                         *)
(* Numbers.  The program computes with IEEE doubles.  A double is modelled *)
(* as an integer, arithmetic on finite values is exact, and the three      *)
(* non-finite doubles the code can produce are three reserved integers     *)
(* (NegInf, PosInf, NaN) that FMul, FAdd and FGreater treat as IEEE does.  *)
(* Probabilities are counted in halves: <<1, 1>> is [.5, .5], <<2, 0>> is  *)
(* [1, 0] and <<0, 2>> is [0, 1].  A random draw is a choice among the     *)
(* outcomes that have positive probability.                                *)
(*                                                                         *)
(* Indices.  Python indexes from 0, the sequences here from 1: index i of  *)
(* the code is position i + 1 of the model.  Choices recorded in Y are     *)
(* 1-based in both.                                                        *)
(***************************************************************************)
EXTENDS Integers, Sequences, FiniteSets, TLC

VARIABLES
    pc,          \* the position of the single thread of control
    args,        \* the caller's arguments nresp, nscns, nalts, nlvls, ncovs
    limit,       \* how many times the caller runs compute_beta_response
    calls,       \* how many runs of compute_beta_response have returned
    X, Z,        \* locals of generate_simulated_design
    data_dict,   \* the dataset bundle (a dictionary: key -> value)
    kind,        \* pathology_type of the running/last compute_beta_response
    Gamma, Vbeta, Y, Beta, beta,    \* locals of compute_beta_response
    noise,       \* the noise vector drawn for the last scenario
    resp, scn,   \* loop indices (number of iterations completed)
    draws,       \* history: the uses of the random source, in order
    exc,         \* the exception that ended the run ("" when none)
    p_beta, p_kind, p_prob, p_out, p_done   \* a direct call of pathology

vars == << pc, args, limit, calls, X, Z, data_dict, kind, Gamma, Vbeta, Y,
           Beta, beta, noise, resp, scn, draws, exc,
           p_beta, p_kind, p_prob, p_out, p_done >>

pipeVars == << pc, args, limit, calls, X, Z, data_dict, kind, Gamma, Vbeta,
               Y, Beta, beta, noise, resp, scn, draws, exc >>

pathVars == << p_beta, p_kind, p_prob, p_out, p_done >>

---------------------------------------------------------------------------
(* Bounds of the model.                                                    *)

\* The largest value of each of nresp, nscns, nalts, nlvls.
MaxDim == 2

\* The largest number of entries nresp * nscns * nalts * nlvls of a design.
MaxCells == 4

\* The largest number of runs of compute_beta_response on one bundle.
MaxCalls == 2

\* The largest length of the vector handed to a direct call of pathology.
MaxLen == 3

---------------------------------------------------------------------------
(* Doubles.                                                                *)

NegInf == -9000000

PosInf == 9000000

NaN == 9999999

\* The sentinel of the screening pathologies.
Sentinel == -10000

IsNaN(x) == x = NaN

IsInf(x) == x = NegInf \/ x = PosInf

IsFinite(x) == ~IsNaN(x) /\ ~IsInf(x)

\* IEEE multiplication.
FMul(a, b) ==
    IF IsNaN(a) \/ IsNaN(b) THEN NaN
    ELSE IF IsInf(a) \/ IsInf(b)
         THEN IF a = 0 \/ b = 0 THEN NaN
              ELSE IF (a > 0) = (b > 0) THEN PosInf ELSE NegInf
         ELSE a * b

\* IEEE addition.
FAdd(a, b) ==
    IF IsNaN(a) \/ IsNaN(b) THEN NaN
    ELSE IF IsInf(a) /\ IsInf(b) THEN (IF a = b THEN a ELSE NaN)
    ELSE IF IsInf(a) THEN a
    ELSE IF IsInf(b) THEN b
    ELSE a + b

\* IEEE a > b (false when either is NaN).  The reserved integers are ordered
\* as the doubles they stand for.
FGreater(a, b) == ~IsNaN(a) /\ ~IsNaN(b) /\ a > b

RECURSIVE SumTo(_, _)
SumTo(s, n) == IF n = 0 THEN 0 ELSE FAdd(SumTo(s, n - 1), s[n])

\* row.dot(beta) for one alternative's feature row.
Dot(row, b) == SumTo([l \in 1..Len(b) |-> FMul(row[l], b[l])], Len(b))

\* X_scn.dot(beta): one utility per alternative.
MatDot(X_scn, b) == [a \in 1..Len(X_scn) |-> Dot(X_scn[a], b)]

\* np.argmin in the place of np.argmax.
argmin(U) ==
    IF \E i \in 1..Len(U) : IsNaN(U[i])
    THEN (CHOOSE i \in 1..Len(U) :
             IsNaN(U[i]) /\ \A j \in 1..(i - 1) : ~IsNaN(U[j])) - 1
    ELSE (CHOOSE i \in 1..Len(U) :
             /\ \A j \in 1..Len(U) : ~FGreater(U[i], U[j])
             /\ \A j \in 1..(i - 1) : FGreater(U[j], U[i])) - 1

\* np.argmax (0-based): the first NaN if there is one, else the first
\* maximum.
argmax(U) ==
    IF \E i \in 1..Len(U) : IsNaN(U[i])
    THEN (CHOOSE i \in 1..Len(U) :
             IsNaN(U[i]) /\ \A j \in 1..(i - 1) : ~IsNaN(U[j])) - 1
    ELSE (CHOOSE i \in 1..Len(U) :
             /\ \A j \in 1..Len(U) : ~FGreater(U[j], U[i])
             /\ \A j \in 1..(i - 1) : FGreater(U[i], U[j])) - 1

---------------------------------------------------------------------------
(* pathology(beta, kind, prob).                                            *)

\* The kinds pathology tells apart, and one it does not.
Kinds == {"none", "ANA", "screening", "screening_inf", "screening_random",
          "ANA_systematic", "ANA_random", "other"}

\* prob as passed by a caller, in halves.
DefaultProb == <<1, 1>>

Probs == {<<1, 1>>, <<2, 0>>, <<0, 2>>}

\* np.random.choice([1, 0], p=prob): the outcomes of positive probability.
Choice10(prob) == {c \in {1, 0} : IF c = 1 THEN prob[1] > 0 ELSE prob[2] > 0}

\* The mask drawn with the two probabilities exchanged.
Masks_swapped(n, prob) == [1..n -> Choice10(<< prob[2], prob[1] >>)]

\* np.random.choice([1, 0], size=n, p=prob).
Masks(n, prob) == [1..n -> Choice10(prob)]

\* np.random.randint(n).
RandInt(n) == 0..(n - 1)

\* The condition negated.
Truthy_inverted(c) == c = 0

\* int(c) as an if-condition.
Truthy(c) == c # 0

\* beta *= v, elementwise.
MulInPlace(b, v) == [l \in 1..Len(b) |-> FMul(b[l], v[l])]

\* beta[0] in the place of beta[-1].
LastIndex_first(b) == 1

\* The position of beta[-1].
LastIndex(b) == Len(b)

\* beta[i] = value, for a 0-based i.
SetItem(b, i, value) == [b EXCEPT ![i + 1] = value]

\* np.ones_like(beta) with [len//2:] = 0.
SecondHalfZero(b) ==
    [l \in 1..Len(b) |-> IF l - 1 >= Len(b) \div 2 THEN 0 ELSE 1]

\* np.ones_like(beta) with [:len//2] = 0.
FirstHalfZero(b) ==
    [l \in 1..Len(b) |-> IF l - 1 < Len(b) \div 2 THEN 0 ELSE 1]

\* A fall-through that zeroes beta.
Untouched_zeroed(b) == [l \in 1..Len(b) |-> 0]

\* The branch of kind 'none', and the fall-through of a kind no branch
\* names: beta is returned as it came.
Untouched(b) == b

\* The results pathology(b, k, prob) can return, each with the number of
\* calls of the random source it made.
pathology(b, k, prob) ==
    CASE k = "none" -> {[beta |-> Untouched(b), ndraws |-> 0]}
      [] k = "ANA" ->
            {[beta |-> MulInPlace(b, m), ndraws |-> 1] :
                m \in Masks(Len(b), prob)}
      [] k = "screening" ->
            {[beta |-> SetItem(b, LastIndex(b) - 1, Sentinel), ndraws |-> 0]}
      [] k = "screening_inf" ->
            {[beta |-> SetItem(b, LastIndex(b) - 1, NegInf), ndraws |-> 0]}
      [] k = "screening_random" ->
            UNION {IF Truthy(c)
                   THEN {[beta |-> SetItem(b, i, Sentinel), ndraws |-> 2] :
                            i \in RandInt(Len(b))}
                   ELSE {[beta |-> b, ndraws |-> 1]} : c \in Choice10(prob)}
      [] k = "ANA_systematic" ->
            {[beta |-> MulInPlace(b, SecondHalfZero(b)), ndraws |-> 0]}
      [] k = "ANA_random" ->
            UNION {IF Truthy(c)
                   THEN {[beta |-> MulInPlace(b, FirstHalfZero(b)),
                          ndraws |-> 1]}
                   ELSE {[beta |-> b, ndraws |-> 1]} : c \in Choice10(prob)}
      [] OTHER -> {[beta |-> Untouched(b), ndraws |-> 0]}

---------------------------------------------------------------------------
(* The caller's arguments, and the values a draw can return.               *)

\* Argument tuples within the bounds.  ncovs = 2 is the unsupported case.
Args ==
    {a \in [nresp : 0..MaxDim, nscns : 1..MaxDim, nalts : 1..MaxDim,
            nlvls : 1..MaxDim, ncovs : 1..2] :
        a.nresp * a.nscns * a.nalts * a.nlvls <= MaxCells}

\* pathology_type as passed to compute_beta_response: a kind, or None.
None == "None"

PathologyTypes == Kinds \cup {None}

\* Components a multivariate-normal draw can take (any real; three of
\* them, one larger than the screening sentinel).
BetaVals == {-2, 3, 20000}

\* Components a uniform(-3, 4) draw can take (two of them).
GammaVals == {-3, 3}

\* np.random.uniform() returns a double in [0, 1): 0 is the double 0.0, and
\* 1 and 2 stand for a draw below and a draw above exp(-1).
UVals == {0, 1, 2}

\* -np.log(-np.log(u)): minus infinity at 0.0, increasing in u, zero at
\* exp(-1).
NegLogNegLog(u) == IF u = 0 THEN NegInf ELSE 2 * u - 3

\* np.zeros of one, two and four dimensions.
Zeros1(n) == [i \in 1..n |-> 0]

Zeros2(n, m) == [i \in 1..n |-> Zeros1(m)]

Zeros4(n, m, k, l) == [i \in 1..n |-> [j \in 1..m |-> Zeros2(k, l)]]

\* M.T of a matrix with n rows and m columns.
Transpose(M, n, m) == [j \in 1..m |-> [i \in 1..n |-> M[i][j]]]

\* A dictionary, an assignment d[k] = v, and a key test.
EmptyDict == [k \in {} |-> 0]

Put(d, k, v) == [x \in DOMAIN d \cup {k} |-> IF x = k THEN v ELSE d[x]]

Has(d, k) == k \in DOMAIN d

\* A local that is not live.
Nil == << >>

\* One use of the random source.
Draw(what, r, t) == << what, r, t >>

\* a + b for vectors, with numpy's broadcasting of a length-1 operand.
BroadcastAdd(a, b) ==
    [i \in 1..(IF Len(a) = 1 THEN Len(b) ELSE Len(a)) |->
        FAdd(a[IF Len(a) = 1 THEN 1 ELSE i], b[IF Len(b) = 1 THEN 1 ELSE i])]

\* The size of the noise draw of one scenario.
NoiseSize(d) == d["C"]

\* U_scn from the design of the scenario, beta and the uniform draw u.
Utility(X_scn, b, u) ==
    BroadcastAdd(MatDot(X_scn, b), [c \in 1..Len(u) |-> NegLogNegLog(u[c])])

\* The 0-based index stored as it is.
Choice_zero_based(U) == argmax(U)

\* The value added to Y[resp, scn].
Choice(U) == argmax(U) + 1

\* `if pathology_type:` is false for None (and for the empty string).
Given(k) == k # None

---------------------------------------------------------------------------
(* generate_simulated_design(nresp, nscns, nalts, nlvls, ncovs).           *)

\* The call: X and Z are allocated and the respondent loop starts.
GenCall ==
    /\ pc = "start"
    /\ X' = Zeros4(args.nresp, args.nscns, args.nalts, args.nlvls)
    /\ Z' = Zeros2(args.ncovs, args.nresp)
    /\ resp' = 0
    /\ pc' = "gen_loop"
    /\ UNCHANGED << args, limit, calls, data_dict, kind, Gamma, Vbeta, Y,
                    Beta, beta, noise, scn, draws, exc >>

\* The head of one respondent's iteration: more than one covariate raises.
GenRespBegin ==
    /\ pc = "gen_loop"
    /\ resp < args.nresp
    /\ IF args.ncovs > 1
       THEN /\ pc' = "raised"
            /\ exc' = "NotImplementedError"
            /\ X' = Nil
            /\ Z' = Nil
            /\ scn' = scn
       ELSE /\ pc' = "gen_scn"
            /\ scn' = 0
            /\ UNCHANGED << X, Z, exc >>
    /\ UNCHANGED << args, limit, calls, data_dict, kind, Gamma, Vbeta, Y,
                    Beta, beta, noise, resp, draws >>

\* One scenario: one draw of nalts * nlvls entries, added to X[resp, scn].
GenScn ==
    /\ pc = "gen_scn"
    /\ scn < args.nscns
    /\ \E X_scn \in [1..args.nalts -> [1..args.nlvls -> {0, 1}]] :
          X' = [X EXCEPT ![resp + 1][scn + 1] =
                   [a \in 1..args.nalts |->
                       [l \in 1..args.nlvls |-> @[a][l] + X_scn[a][l]]]]
    /\ draws' = Append(draws, Draw("design", resp, scn))
    /\ scn' = scn + 1
    /\ UNCHANGED << pc, args, limit, calls, Z, data_dict, kind, Gamma, Vbeta,
                    Y, Beta, beta, noise, resp, exc >>

\* The tail of one respondent's iteration: Z[:, resp] += z_resp.
GenRespEnd ==
    /\ pc = "gen_scn"
    /\ scn = args.nscns
    /\ Z' = [c \in 1..args.ncovs |-> [Z[c] EXCEPT ![resp + 1] = @ + 1]]
    /\ resp' = resp + 1
    /\ pc' = "gen_loop"
    /\ UNCHANGED << args, limit, calls, X, data_dict, kind, Gamma, Vbeta, Y,
                    Beta, beta, noise, scn, draws, exc >>

\* The loop is over: the bundle is built and returned.
GenReturn ==
    /\ pc = "gen_loop"
    /\ resp = args.nresp
    /\ data_dict' =
          Put(Put(Put(Put(Put(Put(Put(EmptyDict,
              "X", X),
              "Z", Transpose(Z, args.ncovs, args.nresp)),
              "A", args.nalts),
              "R", args.nresp),
              "C", args.ncovs),
              "T", args.nscns),
              "L", args.nlvls)
    /\ X' = Nil
    /\ Z' = Nil
    /\ pc' = "ready"
    /\ UNCHANGED << args, limit, calls, kind, Gamma, Vbeta, Y, Beta, beta,
                    noise, resp, scn, draws, exc >>

---------------------------------------------------------------------------
(* compute_beta_response(data_dict, pathology_type).                       *)

\* np.diag(np.ones(L)) + .5 * np.ones((L, L)), in halves.
VbetaOf(L) == [i \in 1..L |-> [j \in 1..L |-> (IF i = j THEN 2 ELSE 0) + 1]]

\* n uses of the random source by pathology for respondent r.
RECURSIVE PathologyDraws(_, _)
PathologyDraws(n, r) ==
    IF n = 0 THEN << >>
    ELSE Append(PathologyDraws(n - 1, r), Draw("pathology", r, 0))

\* The pathology applied before beta is drawn.
RespDraws_swapped(r, n) == PathologyDraws(n, r) \o << Draw("mvn", r, 0) >>

\* The uses of the random source at the head of respondent r's iteration:
\* the multivariate-normal draw, then those of pathology.
RespDraws(r, n) == << Draw("mvn", r, 0) >> \o PathologyDraws(n, r)

\* The call: Gamma is drawn, Vbeta computed, Y and Beta allocated.
CbrCall ==
    /\ pc = "ready"
    /\ calls < limit
    /\ \E k \in PathologyTypes : kind' = k
    /\ \E g \in [1..(data_dict["C"] * data_dict["L"]) -> GammaVals] :
          Gamma' = g
    /\ draws' = Append(draws, Draw("Gamma", 0, 0))
    /\ Vbeta' = VbetaOf(data_dict["L"])
    /\ Y' = Zeros2(data_dict["R"], data_dict["T"])
    /\ Beta' = Zeros2(data_dict["L"], data_dict["R"])
    /\ resp' = 0
    /\ pc' = "cbr_loop"
    /\ UNCHANGED << args, limit, calls, X, Z, data_dict, beta, noise, scn,
                    exc >>

\* The head of one respondent's iteration: more than one covariate raises;
\* otherwise beta is drawn and the pathology applied to it.
CbrRespBegin ==
    /\ pc = "cbr_loop"
    /\ resp < data_dict["R"]
    /\ IF data_dict["C"] > 1
       THEN /\ pc' = "raised"
            /\ exc' = "NotImplementedError"
            /\ Gamma' = Nil
            /\ Vbeta' = Nil
            /\ Y' = Nil
            /\ Beta' = Nil
            /\ UNCHANGED << beta, draws, scn >>
       ELSE /\ \E b \in [1..data_dict["L"] -> BetaVals] :
               \E o \in (IF Given(kind)
                         THEN pathology(b, kind, DefaultProb)
                         ELSE {[beta |-> b, ndraws |-> 0]}) :
                  /\ beta' = o.beta
                  /\ draws' = draws \o RespDraws(resp, o.ndraws)
            /\ scn' = 0
            /\ pc' = "cbr_scn"
            /\ UNCHANGED << Gamma, Vbeta, Y, Beta, exc >>
    /\ UNCHANGED << args, limit, calls, X, Z, data_dict, kind, noise, resp >>

\* One scenario: one noise draw, the utilities, and the choice into Y.
CbrScn ==
    /\ pc = "cbr_scn"
    /\ scn < data_dict["T"]
    /\ \E u \in [1..NoiseSize(data_dict) -> UVals] :
          LET X_scn == data_dict["X"][resp + 1][scn + 1]
              U_scn == Utility(X_scn, beta, u)
          IN  /\ noise' = [c \in 1..NoiseSize(data_dict) |->
                              NegLogNegLog(u[c])]
              /\ Y' = [Y EXCEPT ![resp + 1][scn + 1] = @ + Choice(U_scn)]
    /\ draws' = Append(draws, Draw("noise", resp, scn))
    /\ scn' = scn + 1
    /\ UNCHANGED << pc, args, limit, calls, X, Z, data_dict, kind, Gamma,
                    Vbeta, Beta, beta, resp, exc >>

\* The tail of one respondent's iteration: Beta[:, resp] += beta.
CbrRespEnd ==
    /\ pc = "cbr_scn"
    /\ scn = data_dict["T"]
    /\ Beta' = [l \in 1..data_dict["L"] |->
                   [Beta[l] EXCEPT ![resp + 1] = FAdd(@, beta[l])]]
    /\ resp' = resp + 1
    /\ pc' = "cbr_loop"
    /\ UNCHANGED << args, limit, calls, X, Z, data_dict, kind, Gamma, Vbeta,
                    Y, beta, noise, scn, draws, exc >>

\* The results written into the bundle.  Y.astype(int) leaves the whole
\* numbers of Y as they are.
WriteResults(d) ==
    Put(Put(Put(Put(d, "Beta", Beta), "Y", Y), "Gamma", Gamma),
        "Vbeta", Vbeta)

\* The loop is over: the results go into the bundle, with w for kind ANA.
CbrReturn ==
    /\ pc = "cbr_loop"
    /\ resp = data_dict["R"]
    /\ IF kind = "ANA"
       THEN /\ \E w \in [1..data_dict["T"] -> {0, 1}] :
                  data_dict' = Put(WriteResults(data_dict), "w", w)
            /\ draws' = Append(draws, Draw("w", 0, 0))
       ELSE /\ data_dict' = WriteResults(data_dict)
            /\ draws' = draws
    /\ Gamma' = Nil
    /\ Vbeta' = Nil
    /\ Y' = Nil
    /\ Beta' = Nil
    /\ beta' = Nil
    /\ noise' = Nil
    /\ calls' = calls + 1
    /\ pc' = "ready"
    /\ UNCHANGED << args, limit, X, Z, kind, resp, scn, exc >>

---------------------------------------------------------------------------
(* A direct call pathology(beta, kind, prob).                              *)

CallPathology ==
    /\ pc = "direct"
    /\ ~p_done
    /\ \E o \in pathology(p_beta, p_kind, p_prob) : p_out' = o.beta
    /\ p_done' = TRUE
    /\ UNCHANGED << p_beta, p_kind, p_prob >>
    /\ UNCHANGED pipeVars

---------------------------------------------------------------------------
(* Specifications.                                                         *)

\* No call of the pipeline is running and no bundle exists.
PipeIdle(p, a, n) ==
    /\ pc = p
    /\ args = a
    /\ limit = n
    /\ calls = 0
    /\ X = Nil /\ Z = Nil
    /\ data_dict = EmptyDict
    /\ kind = None
    /\ Gamma = Nil /\ Vbeta = Nil /\ Y = Nil /\ Beta = Nil /\ beta = Nil
    /\ noise = Nil
    /\ resp = 0 /\ scn = 0
    /\ draws = << >>
    /\ exc = ""

\* No direct call of pathology is made.
PathIdle ==
    /\ p_beta = Nil /\ p_kind = "none" /\ p_prob = DefaultProb
    /\ p_out = Nil /\ p_done = FALSE

\* generate_simulated_data with bounded dimensions: one design, one run of
\* compute_beta_response on it.
Init ==
    /\ \E a \in Args : PipeIdle("start", a, 1)
    /\ PathIdle

Next ==
    \/ (GenCall /\ UNCHANGED pathVars)
    \/ (GenRespBegin /\ UNCHANGED pathVars)
    \/ (GenScn /\ UNCHANGED pathVars)
    \/ (GenRespEnd /\ UNCHANGED pathVars)
    \/ (GenReturn /\ UNCHANGED pathVars)
    \/ (CbrCall /\ UNCHANGED pathVars)
    \/ (CbrRespBegin /\ UNCHANGED pathVars)
    \/ (CbrScn /\ UNCHANGED pathVars)
    \/ (CbrRespEnd /\ UNCHANGED pathVars)
    \/ (CbrReturn /\ UNCHANGED pathVars)

Spec == Init /\ [][Next]_vars

\* One design of at most one entry, and up to MaxCalls runs of
\* compute_beta_response on its bundle.
ArgsRepeat == {a \in Args : a.nresp * a.nscns * a.nalts * a.nlvls <= 1}

InitRepeat ==
    /\ \E a \in ArgsRepeat : PipeIdle("start", a, MaxCalls)
    /\ PathIdle

SpecRepeat == InitRepeat /\ [][Next]_vars

\* Direct calls of pathology on every vector, kind and prob in the bounds.
PathologyInputs == UNION {[1..n -> BetaVals] : n \in 1..MaxLen}

InitPathology ==
    /\ PipeIdle("direct", CHOOSE a \in Args : TRUE, 0)
    /\ p_beta \in PathologyInputs
    /\ p_kind \in Kinds
    /\ p_prob \in Probs
    /\ p_out = Nil
    /\ p_done = FALSE

NextPathology == CallPathology

SpecPathology == InitPathology /\ [][NextPathology]_vars

---------------------------------------------------------------------------
(* Claims about the pipeline (Spec, SpecRepeat).                           *)

\* A run of compute_beta_response has returned into the bundle.
Simulated == pc = "ready" /\ Has(data_dict, "Y")

\* C1: after generate_simulated_design(R, T, A, L, 1) and
\* compute_beta_response with any pathology kind, Y in the bundle has shape
\* [R, T] and every entry of Y is in 1..A.
C1_YInRange ==
    Simulated =>
        /\ DOMAIN data_dict["Y"] = 1..data_dict["R"]
        /\ \A r \in 1..data_dict["R"] :
              /\ DOMAIN data_dict["Y"][r] = 1..data_dict["T"]
              /\ \A t \in 1..data_dict["T"] :
                    data_dict["Y"][r][t] \in 1..data_dict["A"]

\* A simulation with kind screening_inf has returned, and a respondent chose
\* the second of two alternatives whose utility was NaN.
C1_Witness ==
    /\ Simulated
    /\ kind = "screening_inf"
    /\ data_dict["A"] = 2
    /\ \E r \in 1..data_dict["R"] : \E t \in 1..data_dict["T"] :
          /\ data_dict["Y"][r][t] = 2
          /\ data_dict["X"][r][t][1][data_dict["L"]] = 1
          /\ data_dict["X"][r][t][2][data_dict["L"]] = 0

\* A scenario of the running simulation has just been decided: its design,
\* its recorded choice.
ScenarioDone == pc = "cbr_scn" /\ scn > 0

LastX == data_dict["X"][resp + 1][scn]

LastY == Y[resp + 1][scn]

\* C2: for every respondent and scenario, each of the A alternatives has its
\* own noise term (A noise values per scenario), and the recorded choice is
\* 1 + the index of the maximum of (feature row . beta + own noise).
C2_NoisePerAlternative ==
    ScenarioDone =>
        /\ Len(noise) = data_dict["A"]
        /\ LastY = 1 + argmax([a \in 1..data_dict["A"] |->
                                  FAdd(Dot(LastX[a], beta), noise[a])])

\* C3: with more than one covariate, generate_simulated_design returns no
\* bundle, whatever the other dimensions, and compute_beta_response writes
\* no Beta, Y, Gamma or Vbeta into a bundle whose C > 1.
C3_FailsOnCovariates ==
    args.ncovs > 1 =>
        /\ ~Has(data_dict, "X")
        /\ pc # "ready"
        /\ {"Beta", "Y", "Gamma", "Vbeta"} \cap DOMAIN data_dict = {}

\* C5: after any sequence of compute_beta_response calls on one bundle, the
\* bundle holds w only if the simulation that produced its current Beta and
\* Y used kind ANA; w, when present, has length T and entries in {0, 1}.
C5_WOnlyForANA ==
    (pc = "ready" /\ Has(data_dict, "w")) =>
        /\ kind = "ANA"
        /\ DOMAIN data_dict["w"] = 1..data_dict["T"]
        /\ \A t \in 1..data_dict["T"] : data_dict["w"][t] \in {0, 1}

\* The sum of the absolute values of components 0 .. L-2 of b is below the
\* sentinel's.
RECURSIVE AbsSum(_, _)
AbsSum(b, n) ==
    IF n = 0 THEN 0
    ELSE AbsSum(b, n - 1) + (IF b[n] < 0 THEN -b[n] ELSE b[n])

Bounded(b) == AbsSum(b, Len(b) - 1) < -Sentinel

NoiseFinite == \A c \in 1..Len(noise) : IsFinite(noise[c])

LastLevel(a) == LastX[a][data_dict["L"]]

\* C9 as stated: with kind screening and the other components of beta
\* bounded, in a scenario where some alternative has the last-level feature
\* the recorded choice is never an alternative without it.  (Stated here for
\* finite noise only, which makes it weaker.)
C9_NeverWithoutFeature ==
    (ScenarioDone /\ kind = "screening" /\ Bounded(beta) /\ NoiseFinite) =>
        ((\E a \in 1..data_dict["A"] : LastLevel(a) = 1) =>
            LastLevel(LastY) = 1)

\* C9 as amended: with kind screening, the other components of beta bounded
\* and the scenario's noise finite, in a scenario where some alternative
\* lacks the last-level feature the recorded choice is never an alternative
\* that has it.
C9_NeverWithFeature ==
    (ScenarioDone /\ kind = "screening" /\ Bounded(beta) /\ NoiseFinite) =>
        ((\E a \in 1..data_dict["A"] : LastLevel(a) = 0) =>
            LastLevel(LastY) = 0)

\* Under screening, the first alternative has the feature, the second lacks
\* it and is chosen, although the first has the higher utility without the
\* sentinel.
C9_Witness ==
    /\ ScenarioDone /\ kind = "screening" /\ Bounded(beta) /\ NoiseFinite
    /\ data_dict["A"] = 2 /\ data_dict["L"] = 2
    /\ LastX[1] = << 1, 1 >> /\ LastX[2] = << 0, 0 >>
    /\ beta[1] = 3
    /\ LastY = 2

\* The order the code uses the random source in: the phases (design, Gamma,
\* the respondents, w), within the respondents by respondent, within one
\* respondent beta, then the pathology, then the noise by scenario.
Phase(e) ==
    CASE e[1] = "design" -> 0
      [] e[1] = "Gamma" -> 1
      [] e[1] = "w" -> 3
      [] OTHER -> 2

Step(e) ==
    CASE e[1] = "mvn" -> 0
      [] e[1] = "pathology" -> 1
      [] OTHER -> 2

Before(e, f) ==
    \/ Phase(e) < Phase(f)
    \/ Phase(e) = Phase(f) /\ e[2] < f[2]
    \/ Phase(e) = Phase(f) /\ e[2] = f[2] /\ Step(e) < Step(f)
    \/ Phase(e) = Phase(f) /\ e[2] = f[2] /\ Step(e) = Step(f) /\ e[3] < f[3]
    \/ e = f /\ e[1] = "pathology"

Count(e) == Cardinality({i \in 1..Len(draws) : draws[i] = e})

CountPathology(r) == Count(Draw("pathology", r, 0))

\* C10: in one run of generate_simulated_design and compute_beta_response
\* the random source is used in a fixed order: one design draw per
\* (respondent, scenario), respondent-major; then one draw of Gamma; then
\* per respondent, in index order, one multivariate-normal draw, the
\* pathology's draws, and one noise draw per scenario in scenario order.
C10_DrawOrder ==
    /\ \A i \in 1..(Len(draws) - 1) : Before(draws[i], draws[i + 1])
    /\ pc = "ready" =>
          \A r \in 0..(data_dict["R"] - 1) :
          \A t \in 0..(data_dict["T"] - 1) : Count(Draw("design", r, t)) = 1
    /\ (pc = "ready" /\ calls = 0) => Len(draws) = args.nresp * args.nscns
    /\ pc \in {"cbr_loop", "cbr_scn"} => Count(Draw("Gamma", 0, 0)) = 1
    /\ pc = "cbr_scn" =>
          /\ Count(Draw("mvn", resp, 0)) = 1
          /\ \A t \in 0..(data_dict["T"] - 1) :
                Count(Draw("noise", resp, t)) = (IF t < scn THEN 1 ELSE 0)
    /\ Simulated =>
          /\ Count(Draw("Gamma", 0, 0)) = 1
          /\ \A r \in 0..(data_dict["R"] - 1) :
                /\ Count(Draw("mvn", r, 0)) = 1
                /\ CountPathology(r) \in
                      (CASE kind \in {"ANA", "ANA_random"} -> {1}
                         [] kind = "screening_random" -> {1, 2}
                         [] OTHER -> {0})
                /\ \A t \in 0..(data_dict["T"] - 1) :
                      Count(Draw("noise", r, t)) = 1

\* A simulation of two respondents and two scenarios with kind
\* screening_random has returned, the pathology having drawn twice for one
\* respondent and once for the other.
C10_Witness ==
    /\ Simulated
    /\ kind = "screening_random"
    /\ data_dict["R"] = 2 /\ data_dict["T"] = 2
    /\ CountPathology(0) = 2 /\ CountPathology(1) = 1
    /\ Len(draws) = 14

---------------------------------------------------------------------------
(* Claims about pathology (SpecPathology).                                 *)

SameLength == DOMAIN p_out = DOMAIN p_beta

\* Exactly one component was set to the sentinel, the others are kept.
ScreenedOnce ==
    /\ SameLength
    /\ \E i \in 1..Len(p_beta) :
          /\ p_out[i] = Sentinel
          /\ \A j \in 1..Len(p_beta) : j # i => p_out[j] = p_beta[j]

\* Indices 0 .. floor(L/2)-1 were set to 0, the others are kept.
FirstHalfZeroed ==
    /\ SameLength
    /\ \A l \in 1..Len(p_beta) :
          p_out[l] = (IF l - 1 <= (Len(p_beta) \div 2) - 1 THEN 0
                      ELSE p_beta[l])

Corrupted ==
    IF p_kind = "screening_random" THEN ScreenedOnce ELSE FirstHalfZeroed

RandomKindCalled == p_done /\ p_kind \in {"screening_random", "ANA_random"}

\* C4 as stated: for the kinds screening_random and ANA_random the
\* corruption is applied with probability prob[1]: with prob = [1, 0] beta
\* is returned unchanged, with prob = [0, 1] the corruption is applied.
C4_AppliedWithProb1 ==
    RandomKindCalled =>
        /\ p_prob = << 2, 0 >> => p_out = p_beta
        /\ p_prob = << 0, 2 >> => Corrupted

\* C4 as amended: for the kinds screening_random and ANA_random the
\* corruption is applied with probability prob[0] and beta is otherwise
\* unchanged: with prob = [1, 0] the corruption is always applied, with
\* prob = [0, 1] beta is always returned unchanged.
C4_AppliedWithProb0 ==
    RandomKindCalled =>
        /\ Corrupted \/ p_out = p_beta
        /\ p_prob = << 2, 0 >> => Corrupted
        /\ p_prob = << 0, 2 >> => p_out = p_beta

\* screening_random was called with prob = [1, 0] on a vector of three
\* components and changed it.
C4_Witness ==
    /\ RandomKindCalled
    /\ p_kind = "screening_random"
    /\ p_prob = << 2, 0 >>
    /\ Len(p_beta) = 3
    /\ p_out # p_beta

\* C6: for kind ANA every output component is the input component or 0;
\* with prob = [1, 0] the output equals the input, with prob = [0, 1] it is
\* the all-zero vector.
C6_ANAKeepsOrZeroes ==
    (p_done /\ p_kind = "ANA") =>
        /\ SameLength
        /\ \A l \in 1..Len(p_beta) : p_out[l] \in {p_beta[l], 0}
        /\ p_prob = << 2, 0 >> => p_out = p_beta
        /\ p_prob = << 0, 2 >> => \A l \in 1..Len(p_beta) : p_out[l] = 0

\* ANA was called with prob = [.5, .5] and kept one component and zeroed
\* another.
C6_Witness ==
    /\ p_done /\ p_kind = "ANA" /\ p_prob = << 1, 1 >>
    /\ \E l, m \in 1..Len(p_beta) : p_out[l] = p_beta[l] /\ p_out[m] = 0

\* C7: for kind screening and a beta of length L >= 1, the last component
\* of the result is -10000 and components 0 .. L-2 are the input's.
C7_ScreeningSetsLast ==
    (p_done /\ p_kind = "screening") =>
        /\ SameLength
        /\ p_out[Len(p_beta)] = -10000
        /\ \A l \in 1..(Len(p_beta) - 1) : p_out[l] = p_beta[l]

\* screening was called on a vector of three components.
C7_Witness ==
    /\ p_done /\ p_kind = "screening" /\ Len(p_beta) = 3
    /\ p_out[3] # p_beta[3]

\* C8: for kind none and for a kind outside the enumerated ones, every
\* component is returned unchanged, and the call returns (it has a result
\* before it is made).
C8_NoOpKinds ==
    /\ (p_done /\ p_kind \in {"none", "other"}) => p_out = p_beta
    /\ (pc = "direct" /\ ~p_done /\ p_kind \in {"none", "other"}) =>
          pathology(p_beta, p_kind, p_prob) # {}

\* A kind no branch names was called on a vector of three components.
C8_Witness ==
    /\ p_done /\ p_kind = "other" /\ Len(p_beta) = 3 /\ Len(p_out) = 3

=============================================================================
